---- MODULE Spec2Model ----
(***************************************************************************)
(* A model of the rask-ui SWC plugin (packages/core/swc-plugin/src/lib.rs): *)
(* the VNode-call detector, the component classifier, the rewrite of       *)
(* component functions into classes, the rewrite of "inferno" imports and   *)
(* the injection of the runtime import.                                    *)
(*                                                                         *)
(* Syntax trees are records tagged by the name of the swc_ecma_ast variant *)
(* they stand for; an Option is a sequence of length 0 (None) or 1 (Some). *)
(***************************************************************************)
EXTENDS Naturals, Sequences, FiniteSets, TLC

VARIABLES
    metadata,   \* the plugin configuration blob handed to process_transform
    program,    \* the module body: a sequence of module items
    original,   \* the module body as it was before the latest pass
    transform,  \* the RaskComponentTransform of the latest pass, after it ran
    marks,      \* number of hygiene marks handed out so far (private_ident!)
    passes,     \* number of passes run over the module
    expr,       \* detector runs: the expression given to has_vnode_call
    found       \* detector runs: <<>> before the call, <<result>> after it

vars == <<metadata, program, original, transform, marks, passes, expr, found>>

None == <<>>
Some(x) == <<x>>

(***************************************************************************)
(* Bounds of the model.                                                    *)
(***************************************************************************)
MaxDepth == 2    \* nesting depth of the expressions given to the detector
MaxStmts == 2    \* statements in a generated function body
MaxItems == 3    \* items in a generated module with imports
MaxPasses == 2   \* passes run over one module

(***************************************************************************)
(* Expressions (swc_ecma_ast::Expr).                                       *)
(***************************************************************************)
Ident(s) == [type |-> "Ident", sym |-> s, ctxt |-> 0]
Lit(v) == [type |-> "Lit", value |-> v]
CalleeExpr(e) == [kind |-> "Expr", expr |-> e]
CalleeSuper == [kind |-> "Super"]
Call(c, as) == [type |-> "Call", callee |-> c, args |-> as]
Paren(e) == [type |-> "Paren", expr |-> e]
Cond(t, c, a) == [type |-> "Cond", test |-> t, cons |-> c, alt |-> a]
Bin(o, l, r) == [type |-> "Bin", op |-> o, left |-> l, right |-> r]
Array(es) == [type |-> "Array", elems |-> es]
ArrowExpr(e) == [type |-> "Arrow", body |-> [kind |-> "Expr", expr |-> e]]
ArrowBlock(ss) == [type |-> "Arrow", body |-> [kind |-> "BlockStmt", stmts |-> ss]]
PropIdent(s) == [kind |-> "Ident", sym |-> s]
PropComputed(e) == [kind |-> "Computed", expr |-> e]
Member(o, p) == [type |-> "Member", obj |-> o, prop |-> p]
Unary(o, e) == [type |-> "Unary", op |-> o, arg |-> e]
Object(vs) == [type |-> "Object", props |-> vs]
Tpl(es) == [type |-> "Tpl", exprs |-> es]
SeqExpr(es) == [type |-> "Seq", exprs |-> es]

(***************************************************************************)
(* Statements (swc_ecma_ast::Stmt), as far as the plugin tells them apart. *)
(***************************************************************************)
Return(arg) == [type |-> "Return", arg |-> arg]
ExprStmt(e) == [type |-> "Expr", expr |-> e]
IfStmt(t, ss) == [type |-> "If", test |-> t, cons |-> ss]
BlockStmt(ss) == [type |-> "Block", stmts |-> ss]

VNodeNames == {"createVNode", "createComponentVNode", "createFragment", "createTextVNode"}

\* has_vnode_call with the recursion into call arguments dropped.
RECURSIVE has_vnode_call_no_args(_)
has_vnode_call_no_args(e) ==
    CASE e.type = "Call" ->
            /\ e.callee.kind = "Expr"
            /\ e.callee.expr.type = "Ident"
            /\ e.callee.expr.sym \in VNodeNames
      [] e.type = "Paren" -> has_vnode_call_no_args(e.expr)
      [] e.type = "Cond" ->
            has_vnode_call_no_args(e.cons) \/ has_vnode_call_no_args(e.alt)
      [] e.type = "Bin" ->
            has_vnode_call_no_args(e.left) \/ has_vnode_call_no_args(e.right)
      [] e.type = "Array" ->
            \E i \in 1..Len(e.elems) :
                e.elems[i] # None /\ has_vnode_call_no_args(e.elems[i][1])
      [] e.type = "Arrow" ->
            IF e.body.kind = "Expr"
            THEN has_vnode_call_no_args(e.body.expr)
            ELSE \E i \in 1..Len(e.body.stmts) :
                    /\ e.body.stmts[i].type = "Return"
                    /\ e.body.stmts[i].arg # None
                    /\ has_vnode_call_no_args(e.body.stmts[i].arg[1])
      [] e.type = "Member" -> has_vnode_call_no_args(e.obj)
      [] e.type = "Unary" -> has_vnode_call_no_args(e.arg)
      [] OTHER -> FALSE

\* has_vnode_call with the condition of a ternary inspected as well.
RECURSIVE has_vnode_call_cond_test(_)
has_vnode_call_cond_test(e) ==
    CASE e.type = "Call" ->
            \/ /\ e.callee.kind = "Expr"
               /\ e.callee.expr.type = "Ident"
               /\ e.callee.expr.sym \in VNodeNames
            \/ \E i \in 1..Len(e.args) : has_vnode_call_cond_test(e.args[i])
      [] e.type = "Paren" -> has_vnode_call_cond_test(e.expr)
      [] e.type = "Cond" ->
            \/ has_vnode_call_cond_test(e.test)
            \/ has_vnode_call_cond_test(e.cons)
            \/ has_vnode_call_cond_test(e.alt)
      [] e.type = "Bin" ->
            has_vnode_call_cond_test(e.left) \/ has_vnode_call_cond_test(e.right)
      [] e.type = "Array" ->
            \E i \in 1..Len(e.elems) :
                e.elems[i] # None /\ has_vnode_call_cond_test(e.elems[i][1])
      [] e.type = "Arrow" ->
            IF e.body.kind = "Expr"
            THEN has_vnode_call_cond_test(e.body.expr)
            ELSE \E i \in 1..Len(e.body.stmts) :
                    /\ e.body.stmts[i].type = "Return"
                    /\ e.body.stmts[i].arg # None
                    /\ has_vnode_call_cond_test(e.body.stmts[i].arg[1])
      [] e.type = "Member" -> has_vnode_call_cond_test(e.obj)
      [] e.type = "Unary" -> has_vnode_call_cond_test(e.arg)
      [] OTHER -> FALSE

\* lib.rs:32-103. Does the expression contain a VNode-related call?
RECURSIVE has_vnode_call(_)
has_vnode_call(e) ==
    CASE e.type = "Call" ->
            \/ /\ e.callee.kind = "Expr"
               /\ e.callee.expr.type = "Ident"
               /\ e.callee.expr.sym \in VNodeNames
            \/ \E i \in 1..Len(e.args) : has_vnode_call(e.args[i])
      [] e.type = "Paren" -> has_vnode_call(e.expr)
      [] e.type = "Cond" -> has_vnode_call(e.cons) \/ has_vnode_call(e.alt)
      [] e.type = "Bin" -> has_vnode_call(e.left) \/ has_vnode_call(e.right)
      [] e.type = "Array" ->
            \E i \in 1..Len(e.elems) :
                e.elems[i] # None /\ has_vnode_call(e.elems[i][1])
      [] e.type = "Arrow" ->
            IF e.body.kind = "Expr"
            THEN has_vnode_call(e.body.expr)
            ELSE \E i \in 1..Len(e.body.stmts) :
                    /\ e.body.stmts[i].type = "Return"
                    /\ e.body.stmts[i].arg # None
                    /\ has_vnode_call(e.body.stmts[i].arg[1])
      [] e.type = "Member" -> has_vnode_call(e.obj)
      [] e.type = "Unary" -> has_vnode_call(e.arg)
      [] OTHER -> FALSE

(***************************************************************************)
(* Functions, declarations and module items.                               *)
(***************************************************************************)
IdentOf(s, c) == [sym |-> s, ctxt |-> c]
ExprIdent(id) == [type |-> "Ident", sym |-> id.sym, ctxt |-> id.ctxt]
Function(ps, body) == [params |-> ps, body |-> body]
FnExpr(id, f) == [type |-> "Fn", ident |-> id, function |-> f]
FnDecl(id, f) == [type |-> "Fn", ident |-> id, function |-> f]
ClassProp(k, v) == [type |-> "ClassProp", key |-> k, value |-> v, is_static |-> FALSE]
Class(ms, sup) == [body |-> ms, super_class |-> sup]
ClassDecl(id, c) == [type |-> "Class", ident |-> id, class |-> c]
StmtDecl(d) == [type |-> "Decl", decl |-> d]
ItemStmt(s) == [type |-> "Stmt", stmt |-> s]
ItemExportDecl(d) == [type |-> "ExportDecl", decl |-> d]
ItemExportDefaultDecl(d) == [type |-> "ExportDefaultDecl", decl |-> d]
ExportNameIdent(s) == [kind |-> "Ident", sym |-> s]
ExportNameStr(s) == [kind |-> "Str", value |-> s]
ImportNamed(local, imported) == [type |-> "Named", local |-> local, imported |-> imported]
ImportDefault(local) == [type |-> "Default", local |-> local]
ItemImport(src, specs) == [type |-> "Import", src |-> src, specifiers |-> specs]

\* The Return statements among ss whose argument is present, in order.
ReturnArgs(ss) ==
    LET idx == {i \in 1..Len(ss) : ss[i].type = "Return" /\ ss[i].arg # None}
    IN  {ss[i].arg[1] : i \in idx}

\* is_stateless_component giving up after the first return statement.
is_stateless_component_first(func) ==
    /\ func.body # None
    /\ \E i \in 1..Len(func.body[1]) :
          /\ func.body[1][i].type = "Return"
          /\ \A j \in 1..(i - 1) : func.body[1][j].type # "Return"
          /\ func.body[1][i].arg # None
          /\ has_vnode_call(func.body[1][i].arg[1])
          /\ func.body[1][i].arg[1].type # "Arrow"

\* lib.rs:106-123
is_stateless_component(func) ==
    /\ func.body # None
    /\ \E a \in ReturnArgs(func.body[1]) : has_vnode_call(a) /\ a.type # "Arrow"

\* is_rask_component looking at the first return statement only.
is_rask_component_first(func) ==
    /\ func.body # None
    /\ \E i \in 1..Len(func.body[1]) :
          /\ func.body[1][i].type = "Return"
          /\ \A j \in 1..(i - 1) : func.body[1][j].type # "Return"
          /\ func.body[1][i].arg # None
          /\ func.body[1][i].arg[1].type = "Arrow"
          /\ LET b == func.body[1][i].arg[1].body
             IN  IF b.kind = "Expr"
                 THEN has_vnode_call(b.expr)
                 ELSE \E r \in ReturnArgs(b.stmts) : has_vnode_call(r)

\* lib.rs:126-158
is_rask_component(func) ==
    /\ func.body # None
    /\ \E a \in ReturnArgs(func.body[1]) :
          /\ a.type = "Arrow"
          /\ IF a.body.kind = "Expr"
             THEN has_vnode_call(a.body.expr)
             ELSE \E r \in ReturnArgs(a.body.stmts) : has_vnode_call(r)

(***************************************************************************)
(* The transform (struct RaskComponentTransform) and its configuration.    *)
(***************************************************************************)
Config(src) == [import_source |-> src]
DefaultConfig == Config(None)

\* lib.rs:23-29
new(config) ==
    [config |-> config,
     import_rask_stateful_component |-> None,
     import_rask_stateless_component |-> None]

\* private_ident!: an identifier under a mark no other identifier carries.
private_ident(sym, m) == IdentOf(sym, m + 1)

\* The run of one method: the transform, the marks handed out, the result.
Ran(self, m, out) == [self |-> self, marks |-> m, out |-> out]

\* lib.rs:161-204
transform_to_stateful_class(self, m, name, func) ==
    LET alloc == self.import_rask_stateful_component = None
        self1 == IF alloc
                 THEN [self EXCEPT !.import_rask_stateful_component =
                          Some(private_ident("RaskStatefulComponent", m))]
                 ELSE self
        super_class_ident == self1.import_rask_stateful_component[1]
        setup_prop == ClassProp("setup", Some(FnExpr(Some(name), func)))
    IN  Ran(self1, IF alloc THEN m + 1 ELSE m,
            ClassDecl(name, Class(<<setup_prop>>, Some(ExprIdent(super_class_ident)))))

\* lib.rs:207-250
transform_to_stateless_class(self, m, name, func) ==
    LET alloc == self.import_rask_stateless_component = None
        self1 == IF alloc
                 THEN [self EXCEPT !.import_rask_stateless_component =
                          Some(private_ident("RaskStatelessComponent", m))]
                 ELSE self
        super_class_ident == self1.import_rask_stateless_component[1]
        render_prop == ClassProp("renderFn", Some(FnExpr(Some(name), func)))
    IN  Ran(self1, IF alloc THEN m + 1 ELSE m,
            ClassDecl(name, Class(<<render_prop>>, Some(ExprIdent(super_class_ident)))))

\* lib.rs:254-259 and 277-282
import_source(self) ==
    IF self.config.import_source = None
    THEN "rask-ui"
    ELSE self.config.import_source[1]

\* rewrite_inferno_imports always writing the default source.
rewrite_inferno_imports_default(self, body) ==
    [i \in 1..Len(body) |->
        IF body[i].type = "Import" /\ body[i].src = "inferno"
        THEN [body[i] EXCEPT !.src = "rask-ui"]
        ELSE body[i]]

\* lib.rs:253-273
rewrite_inferno_imports(self, body) ==
    [i \in 1..Len(body) |->
        IF body[i].type = "Import" /\ body[i].src = "inferno"
        THEN [body[i] EXCEPT !.src = import_source(self)]
        ELSE body[i]]

\* lib.rs:294-303 and 328-337: does the specifier already import `name`?
specifier_matches(spec, name) ==
    /\ spec.type = "Named"
    /\ IF spec.imported # None /\ spec.imported[1].kind = "Ident"
       THEN spec.imported[1].sym = name
       ELSE spec.local.sym = name

\* lib.rs:289-308 and 323-342: the `exists` flag after the scan of the module.
import_exists(self, body, name) ==
    \E i \in 1..Len(body) :
        /\ body[i].type = "Import"
        /\ body[i].src = import_source(self)
        /\ \E k \in 1..Len(body[i].specifiers) :
              specifier_matches(body[i].specifiers[k], name)

\* lib.rs:311-316 and 345-350
runtime_specifier(local, name) ==
    ImportNamed(local, Some(ExportNameIdent(name)))

\* inject_runtime adding the runtime import to every module it is given.
inject_runtime_always(self, body) ==
    LET local(id, name) == IF id = None THEN IdentOf(name, 0) ELSE id[1]
        specifiers ==
            <<runtime_specifier(local(self.import_rask_stateful_component,
                                      "RaskStatefulComponent"), "RaskStatefulComponent"),
              runtime_specifier(local(self.import_rask_stateless_component,
                                      "RaskStatelessComponent"), "RaskStatelessComponent")>>
    IN  <<ItemImport(import_source(self), specifiers)>> \o body

\* lib.rs:276-371
inject_runtime(self, body) ==
    LET stateful ==
            IF /\ self.import_rask_stateful_component # None
               /\ ~import_exists(self, body, "RaskStatefulComponent")
            THEN <<runtime_specifier(self.import_rask_stateful_component[1],
                                     "RaskStatefulComponent")>>
            ELSE <<>>
        stateless ==
            IF /\ self.import_rask_stateless_component # None
               /\ ~import_exists(self, body, "RaskStatelessComponent")
            THEN <<runtime_specifier(self.import_rask_stateless_component[1],
                                     "RaskStatelessComponent")>>
            ELSE <<>>
        specifiers == stateful \o stateless
    IN  IF specifiers # <<>>
        THEN <<ItemImport(import_source(self), specifiers)>> \o body
        ELSE body

(***************************************************************************)
(* The traversal.  Only visit_mut_module and visit_mut_module_item are     *)
(* overridden, so the default traversal below a module item rebuilds every *)
(* statement as it is; it does not enter expressions here.                 *)
(***************************************************************************)
\* The default traversal, were nested function declarations rewritten too.
RECURSIVE visit_mut_children_stmts_nested(_)
visit_mut_children_stmts_nested(ss) ==
    [i \in 1..Len(ss) |->
        LET s == ss[i]
        IN  CASE s.type = "If" ->
                    [s EXCEPT !.cons = visit_mut_children_stmts_nested(s.cons)]
              [] s.type = "Block" ->
                    [s EXCEPT !.stmts = visit_mut_children_stmts_nested(s.stmts)]
              [] s.type = "Decl" /\ s.decl.type = "Fn" ->
                    IF is_rask_component(s.decl.function)
                    THEN StmtDecl(transform_to_stateful_class(
                            new(DefaultConfig), 0, s.decl.ident, s.decl.function).out)
                    ELSE IF is_stateless_component(s.decl.function)
                    THEN StmtDecl(transform_to_stateless_class(
                            new(DefaultConfig), 0, s.decl.ident, s.decl.function).out)
                    ELSE s
              [] OTHER -> s]

\* lib.rs:445 (VisitMutWith, below a module item)
RECURSIVE visit_mut_children_stmts(_)
visit_mut_children_stmts(ss) ==
    [i \in 1..Len(ss) |->
        LET s == ss[i]
        IN  CASE s.type = "If" ->
                    [s EXCEPT !.cons = visit_mut_children_stmts(s.cons)]
              [] s.type = "Block" ->
                    [s EXCEPT !.stmts = visit_mut_children_stmts(s.stmts)]
              [] s.type = "Decl" /\ s.decl.type = "Fn" /\ s.decl.function.body # None ->
                    [s EXCEPT !.decl.function.body =
                        Some(visit_mut_children_stmts(s.decl.function.body[1]))]
              [] OTHER -> s]

\* lib.rs:445: item.visit_mut_children_with(self)
visit_mut_children_with(item) ==
    CASE item.type = "Stmt" ->
            [item EXCEPT !.stmt = visit_mut_children_stmts(<<item.stmt>>)[1]]
      [] item.type \in {"ExportDecl", "ExportDefaultDecl"}
            /\ item.decl.type = "Fn" /\ item.decl.function.body # None ->
            [item EXCEPT !.decl.function.body =
                Some(visit_mut_children_stmts(item.decl.function.body[1]))]
      [] OTHER -> item

\* visit_mut_module_item rewriting a default-exported function as well.
visit_mut_module_item_default(self, m, item) ==
    IF item.type = "Stmt" /\ item.stmt.type = "Decl" /\ item.stmt.decl.type = "Fn"
    THEN LET fn_decl == item.stmt.decl
         IN  IF is_rask_component(fn_decl.function)
             THEN LET r == transform_to_stateful_class(self, m, fn_decl.ident, fn_decl.function)
                  IN  Ran(r.self, r.marks, ItemStmt(StmtDecl(r.out)))
             ELSE IF is_stateless_component(fn_decl.function)
             THEN LET r == transform_to_stateless_class(self, m, fn_decl.ident, fn_decl.function)
                  IN  Ran(r.self, r.marks, ItemStmt(StmtDecl(r.out)))
             ELSE Ran(self, m, visit_mut_children_with(item))
    ELSE IF item.type = "ExportDefaultDecl"
            /\ item.decl.type = "Fn" /\ item.decl.ident # None
            /\ is_rask_component(item.decl.function)
    THEN LET r == transform_to_stateful_class(self, m, item.decl.ident[1], item.decl.function)
         IN  Ran(r.self, r.marks, [item EXCEPT !.decl = r.out])
    ELSE IF item.type = "ExportDecl" /\ item.decl.type = "Fn"
    THEN LET fn_decl == item.decl
         IN  IF is_rask_component(fn_decl.function)
             THEN LET r == transform_to_stateful_class(self, m, fn_decl.ident, fn_decl.function)
                  IN  Ran(r.self, r.marks, [item EXCEPT !.decl = r.out])
             ELSE IF is_stateless_component(fn_decl.function)
             THEN LET r == transform_to_stateless_class(self, m, fn_decl.ident, fn_decl.function)
                  IN  Ran(r.self, r.marks, [item EXCEPT !.decl = r.out])
             ELSE Ran(self, m, visit_mut_children_with(item))
    ELSE Ran(self, m, visit_mut_children_with(item))

\* visit_mut_module_item with the two tests of the export arm in the other order.
visit_mut_module_item_export(self, m, item) ==
    IF item.type = "Stmt" /\ item.stmt.type = "Decl" /\ item.stmt.decl.type = "Fn"
    THEN LET fn_decl == item.stmt.decl
         IN  IF is_rask_component(fn_decl.function)
             THEN LET r == transform_to_stateful_class(self, m, fn_decl.ident, fn_decl.function)
                  IN  Ran(r.self, r.marks, ItemStmt(StmtDecl(r.out)))
             ELSE IF is_stateless_component(fn_decl.function)
             THEN LET r == transform_to_stateless_class(self, m, fn_decl.ident, fn_decl.function)
                  IN  Ran(r.self, r.marks, ItemStmt(StmtDecl(r.out)))
             ELSE Ran(self, m, visit_mut_children_with(item))
    ELSE IF item.type = "ExportDecl" /\ item.decl.type = "Fn"
    THEN LET fn_decl == item.decl
         IN  IF is_stateless_component(fn_decl.function)
             THEN LET r == transform_to_stateless_class(self, m, fn_decl.ident, fn_decl.function)
                  IN  Ran(r.self, r.marks, [item EXCEPT !.decl = r.out])
             ELSE IF is_rask_component(fn_decl.function)
             THEN LET r == transform_to_stateful_class(self, m, fn_decl.ident, fn_decl.function)
                  IN  Ran(r.self, r.marks, [item EXCEPT !.decl = r.out])
             ELSE Ran(self, m, visit_mut_children_with(item))
    ELSE Ran(self, m, visit_mut_children_with(item))

\* lib.rs:388-446
visit_mut_module_item(self, m, item) ==
    IF item.type = "Stmt" /\ item.stmt.type = "Decl" /\ item.stmt.decl.type = "Fn"
    THEN LET fn_decl == item.stmt.decl
         IN  IF is_rask_component(fn_decl.function)
             THEN LET r == transform_to_stateful_class(self, m, fn_decl.ident, fn_decl.function)
                  IN  Ran(r.self, r.marks, ItemStmt(StmtDecl(r.out)))
             ELSE IF is_stateless_component(fn_decl.function)
             THEN LET r == transform_to_stateless_class(self, m, fn_decl.ident, fn_decl.function)
                  IN  Ran(r.self, r.marks, ItemStmt(StmtDecl(r.out)))
             ELSE Ran(self, m, visit_mut_children_with(item))
    ELSE IF item.type = "ExportDefaultDecl"
    THEN \* classified (lib.rs:410-418), never rewritten
         Ran(self, m, visit_mut_children_with(item))
    ELSE IF item.type = "ExportDecl" /\ item.decl.type = "Fn"
    THEN LET fn_decl == item.decl
         IN  IF is_rask_component(fn_decl.function)
             THEN LET r == transform_to_stateful_class(self, m, fn_decl.ident, fn_decl.function)
                  IN  Ran(r.self, r.marks, [item EXCEPT !.decl = r.out])
             ELSE IF is_stateless_component(fn_decl.function)
             THEN LET r == transform_to_stateless_class(self, m, fn_decl.ident, fn_decl.function)
                  IN  Ran(r.self, r.marks, [item EXCEPT !.decl = r.out])
             ELSE Ran(self, m, visit_mut_children_with(item))
    ELSE Ran(self, m, visit_mut_children_with(item))

\* lib.rs:379: module.visit_mut_children_with(self), the items in order.
RECURSIVE visit_mut_module_items(_, _, _, _)
visit_mut_module_items(self, m, body, done) ==
    IF Len(done) = Len(body)
    THEN Ran(self, m, done)
    ELSE LET r == visit_mut_module_item(self, m, body[Len(done) + 1])
         IN  visit_mut_module_items(r.self, r.marks, body, Append(done, r.out))

\* lib.rs:377-386
visit_mut_module(self, m, body) ==
    LET visited == visit_mut_module_items(self, m, body, <<>>)
        rewritten == rewrite_inferno_imports(visited.self, visited.out)
    IN  Ran(visited.self, visited.marks, inject_runtime(visited.self, rewritten))

\* serde_json::from_str::<Config>: Some(config), or None for a parse error.
from_str(text) ==
    IF text.json # "object"
    THEN None
    ELSE IF text.importSource = None
    THEN Some(Config(None))
    ELSE IF text.importSource[1].kind = "string"
    THEN Some(Config(Some(text.importSource[1].value)))
    ELSE None

\* lib.rs:449-460
process_transform(body, md, m) ==
    LET text == IF md = None THEN [json |-> "object", importSource |-> None] ELSE md[1]
        parsed == from_str(text)
        config == IF parsed = None THEN DefaultConfig ELSE parsed[1]
    IN  visit_mut_module(new(config), m, body)

(***************************************************************************)
(* Inputs.                                                                 *)
(***************************************************************************)
L == Lit(42)
VNode == Call(CalleeExpr(Ident("createVNode")), <<>>)
ItemsMap == CalleeExpr(Member(Ident("items"), PropIdent("map")))

\* The expressions given to the detector: every syntactic position of every
\* shape, filled with an expression one level smaller.
BaseExprs == {Ident("createVNode"), L, VNode, Call(CalleeExpr(Ident("items")), <<>>)}

ExprContexts(x) ==
    {Call(CalleeExpr(Ident(n)), <<x>>) : n \in VNodeNames \cup {"items"}}
    \cup {Call(CalleeExpr(x), <<>>), Call(CalleeExpr(x), <<L>>), Call(CalleeSuper, <<x>>),
          Call(ItemsMap, <<x>>), Call(ItemsMap, <<L, x>>),
          Paren(x),
          Cond(x, L, L), Cond(L, x, L), Cond(L, L, x),
          Bin("&&", x, L), Bin("&&", L, x), Bin("+", x, L), Bin("+", L, x),
          Array(<<Some(x)>>), Array(<<None, Some(x)>>), Array(<<None>>),
          ArrowExpr(x),
          ArrowBlock(<<Return(Some(x))>>), ArrowBlock(<<ExprStmt(x)>>),
          ArrowBlock(<<Return(None), Return(Some(x))>>),
          ArrowBlock(<<IfStmt(L, <<Return(Some(x))>>)>>),
          ArrowBlock(<<BlockStmt(<<Return(Some(x))>>)>>),
          Member(x, PropIdent("map")), Member(Ident("items"), PropComputed(x)),
          Unary("!", x),
          Object(<<x>>), Tpl(<<x>>), SeqExpr(<<L, x>>)}

RECURSIVE ExprsUpTo(_)
ExprsUpTo(d) ==
    IF d = 0
    THEN BaseExprs
    ELSE LET smaller == ExprsUpTo(d - 1)
         IN  smaller \cup UNION {ExprContexts(x) : x \in smaller}

\* Expressions of depth at most MaxDepth: a smaller one, or one put in a context.
DetectorInputs(x) == {x} \cup ExprContexts(x)

\* Sequences over S of length at most n.
RECURSIVE SeqsUpTo(_, _)
SeqsUpTo(S, n) ==
    IF n = 0
    THEN {<<>>}
    ELSE LET shorter == SeqsUpTo(S, n - 1)
         IN  shorter \cup {Append(q, x) : q \in {r \in shorter : Len(r) = n - 1}, x \in S}

\* The arguments of the return statements of generated function bodies.
ReturnedExprs ==
    {VNode, L,
     ArrowExpr(VNode), ArrowExpr(L),
     ArrowBlock(<<Return(Some(VNode))>>),
     ArrowBlock(<<IfStmt(L, <<Return(Some(VNode))>>)>>),
     Paren(ArrowExpr(VNode)),
     Call(ItemsMap, <<ArrowExpr(VNode)>>),
     Call(ItemsMap, <<ArrowExpr(Object(<<VNode>>))>>),
     Cond(VNode, L, L)}

InnerStateful ==
    FnDecl(IdentOf("Inner", 0), Function(<<>>, Some(<<Return(Some(ArrowExpr(VNode)))>>)))
InnerStateless ==
    FnDecl(IdentOf("Inner", 0), Function(<<>>, Some(<<Return(Some(VNode))>>)))

BodyStmts ==
    {Return(Some(e)) : e \in ReturnedExprs}
    \cup {Return(None), ExprStmt(VNode),
          IfStmt(L, <<Return(Some(ArrowExpr(VNode)))>>),
          StmtDecl(InnerStateful), StmtDecl(InnerStateless)}

Functions ==
    {Function(<<"props">>, Some(ss)) : ss \in SeqsUpTo(BodyStmts, MaxStmts)}
    \cup {Function(<<>>, None)}

\* A module holding one function: bare, in a named export, default-exported.
FunctionModules ==
    UNION {{<<ItemStmt(StmtDecl(FnDecl(IdentOf("F", 0), f)))>>,
            <<ItemExportDecl(FnDecl(IdentOf("F", 0), f))>>,
            <<ItemExportDefaultDecl(FnExpr(Some(IdentOf("F", 0)), f))>>} : f \in Functions}

Stateful == Function(<<"props">>, Some(<<Return(Some(ArrowExpr(VNode)))>>))
Stateless == Function(<<>>, Some(<<Return(Some(VNode))>>))
Plain == Function(<<>>, Some(<<StmtDecl(InnerStateless), Return(Some(L))>>))

Named(local, imported) == ImportNamed(IdentOf(local, 0), imported)

\* The items of the generated modules with imports.
Items ==
    {ItemImport("inferno", <<Named("createVNode", None)>>),
     ItemImport("inferno", <<Named("RaskStatefulComponent", None)>>),
     ItemImport("rask-ui", <<Named("RaskStatefulComponent", None)>>),
     ItemImport("rask-ui", <<Named("Foo", Some(ExportNameIdent("RaskStatefulComponent")))>>),
     ItemImport("rask-ui", <<Named("Foo", Some(ExportNameStr("RaskStatefulComponent")))>>),
     ItemImport("my-runtime", <<Named("RaskStatelessComponent", None),
                                ImportDefault(IdentOf("Foo", 0))>>),
     ItemImport("other-lib", <<Named("RaskStatefulComponent", None)>>),
     ItemStmt(StmtDecl(FnDecl(IdentOf("A", 0), Stateful))),
     ItemStmt(StmtDecl(FnDecl(IdentOf("B", 0), Stateless))),
     ItemStmt(StmtDecl(FnDecl(IdentOf("C", 0), Plain))),
     ItemExportDecl(FnDecl(IdentOf("D", 0), Stateful)),
     ItemExportDefaultDecl(FnExpr(None, Stateful))}

\* Modules of at most MaxItems items: a shorter one, or one with an item more.
ItemModules(q) == {q} \cup {Append(q, x) : x \in Items}

\* The configuration blobs: none, "{}"-like objects, and text serde rejects.
Metadata ==
    {None,
     Some([json |-> "object",
           importSource |-> Some([kind |-> "string", value |-> "my-runtime"])]),
     Some([json |-> "object",
           importSource |-> Some([kind |-> "number", value |-> "5"])]),
     Some([json |-> "invalid", importSource |-> None])}

(***************************************************************************)
(* Passes over a module.                                                   *)
(***************************************************************************)
Init ==
    /\ metadata \in Metadata
    /\ \/ program \in FunctionModules
       \/ \E q \in SeqsUpTo(Items, MaxItems - 1) : program \in ItemModules(q)
    /\ original = program
    /\ transform = new(DefaultConfig)
    /\ marks = 0
    /\ passes = 0
    /\ expr = L
    /\ found = None

\* The host runs the plugin over the module (process_transform).
Transform ==
    /\ passes < MaxPasses
    /\ LET r == process_transform(program, metadata, marks)
       IN  /\ program' = r.out
           /\ transform' = r.self
           /\ marks' = r.marks
    /\ original' = program
    /\ passes' = passes + 1
    /\ UNCHANGED <<metadata, expr, found>>

Next == Transform

Spec == Init /\ [][Next]_vars

(***************************************************************************)
(* Runs of the detector alone.                                             *)
(***************************************************************************)
InitDetector ==
    /\ metadata = None
    /\ program = <<>>
    /\ original = <<>>
    /\ transform = new(DefaultConfig)
    /\ marks = 0
    /\ passes = 0
    /\ \E x \in ExprsUpTo(MaxDepth - 1) : expr \in DetectorInputs(x)
    /\ found = None

Detect ==
    /\ found = None
    /\ found' = Some(has_vnode_call(expr))
    /\ UNCHANGED <<metadata, program, original, transform, marks, passes, expr>>

NextDetector == Detect

SpecDetector == InitDetector /\ [][NextDetector]_vars

(***************************************************************************)
(* The reference predicate of the detector: an expression holds a creation *)
(* call iff it is a call of one of the four creation names, or one of the  *)
(* sub-expressions the predicate looks into holds one.                     *)
(***************************************************************************)
IsCreationCall(e) ==
    /\ e.type = "Call"
    /\ e.callee.kind = "Expr"
    /\ e.callee.expr.type = "Ident"
    /\ e.callee.expr.sym \in
          {"createVNode", "createComponentVNode", "createFragment", "createTextVNode"}

DirectReturnArgs(ss) ==
    {ss[i].arg[1] : i \in {j \in 1..Len(ss) : ss[j].type = "Return" /\ ss[j].arg # None}}

Inspected(e) ==
    CASE e.type = "Call" -> {e.args[i] : i \in 1..Len(e.args)}
      [] e.type = "Paren" -> {e.expr}
      [] e.type = "Unary" -> {e.arg}
      [] e.type = "Cond" -> {e.cons, e.alt}
      [] e.type = "Bin" -> {e.left, e.right}
      [] e.type = "Array" ->
            {e.elems[i][1] : i \in {j \in 1..Len(e.elems) : e.elems[j] # None}}
      [] e.type = "Arrow" ->
            IF e.body.kind = "Expr" THEN {e.body.expr} ELSE DirectReturnArgs(e.body.stmts)
      [] e.type = "Member" -> {e.obj}
      [] OTHER -> {}

RECURSIVE has_creation_call(_)
has_creation_call(e) ==
    IsCreationCall(e) \/ \E c \in Inspected(e) : has_creation_call(c)

\* C9: on every expression of the bounded grammar the detector returns what
\* the reference predicate of the specification returns.
C9_DetectorIsReference ==
    found # None => found[1] = has_creation_call(expr)

\* C9: the detector has answered "no" on a conditional whose test alone holds
\* a creation call.
C9_Witness ==
    /\ found = Some(FALSE)
    /\ expr.type = "Cond"
    /\ has_creation_call(expr.test)

(***************************************************************************)
(* What a pass did to the items of the module it was given.                *)
(***************************************************************************)
After(i) == program[i + (Len(program) - Len(original))]

IsFunctionItem(it) ==
    \/ it.type = "Stmt" /\ it.stmt.type = "Decl" /\ it.stmt.decl.type = "Fn"
    \/ it.type = "ExportDecl" /\ it.decl.type = "Fn"

IsClassItem(it) ==
    \/ it.type = "Stmt" /\ it.stmt.type = "Decl" /\ it.stmt.decl.type = "Class"
    \/ it.type = "ExportDecl" /\ it.decl.type = "Class"

DeclOf(it) == IF it.type = "Stmt" THEN it.stmt.decl ELSE it.decl

\* The module-level function declarations of the module the pass was given.
FunctionItems == {i \in 1..Len(original) : IsFunctionItem(original[i])}

\* `it` declares a class extending `base` whose only member is the field `key`.
IsComponentClass(it, base, key) ==
    /\ IsClassItem(it)
    /\ base # None
    /\ DeclOf(it).class.super_class = Some(ExprIdent(base[1]))
    /\ Len(DeclOf(it).class.body) = 1
    /\ DeclOf(it).class.body[1].type = "ClassProp"
    /\ DeclOf(it).class.body[1].key = key

IsStatelessClass(it) ==
    IsComponentClass(it, transform.import_rask_stateless_component, "renderFn")

IsStatefulClass(it) ==
    IsComponentClass(it, transform.import_rask_stateful_component, "setup")

\* The two component shapes of a return argument.
StatefulShape(a) ==
    /\ a.type = "Arrow"
    /\ IF a.body.kind = "Expr"
       THEN has_creation_call(a.body.expr)
       ELSE \E r \in DirectReturnArgs(a.body.stmts) : has_creation_call(r)

StatelessShape(a) == a.type # "Arrow" /\ has_creation_call(a)

TopReturns(f) ==
    IF f.body = None
    THEN {}
    ELSE {i \in 1..Len(f.body[1]) : f.body[1][i].type = "Return" /\ f.body[1][i].arg # None}

ArgOf(f, i) == f.body[1][i].arg[1]

\* The first top-level return matching a component shape returns directly.
FirstMatchIsDirect(f) ==
    \E i \in TopReturns(f) :
        /\ StatelessShape(ArgOf(f, i))
        /\ \A j \in TopReturns(f) :
              j < i => ~StatefulShape(ArgOf(f, j)) /\ ~StatelessShape(ArgOf(f, j))

SomeStatefulReturn(f) == \E i \in TopReturns(f) : StatefulShape(ArgOf(f, i))

\* C1 as stated: a function whose first matching return returns a creation
\* call directly is replaced by a stateless class, whatever returns follow.
C1_FirstDirectReturnIsStateless ==
    passes >= 1 =>
        \A i \in FunctionItems :
            FirstMatchIsDirect(DeclOf(original[i]).function)
                => IsStatelessClass(After(i))

\* C1 amended: ... provided no top-level return, before or after it, returns
\* an arrow function of the Stateful shape.
C1_DirectReturnIsStateless ==
    passes >= 1 =>
        \A i \in FunctionItems :
            LET f == DeclOf(original[i]).function
            IN  FirstMatchIsDirect(f) /\ ~SomeStatefulReturn(f)
                    => IsStatelessClass(After(i))

\* C1: a function returning a creation call first and an arrow function that
\* holds none afterwards has been replaced by a stateless class.
C1_Witness ==
    /\ passes >= 1
    /\ \E i \in FunctionItems :
          LET f == DeclOf(original[i]).function
          IN  /\ FirstMatchIsDirect(f)
              /\ \E j, k \in TopReturns(f) : j < k /\ ArgOf(f, k).type = "Arrow"
              /\ IsStatelessClass(After(i))

\* C2: a module-level function declaration becomes a stateful class exactly
\* when some top-level return has an arrow function of the Stateful shape as
\* its argument, also when a direct return matches too; the class then has
\* the single field `setup` holding the function with its name, parameters
\* and body, and extends the stateful base-class identifier.
C2_StatefulExactly ==
    passes >= 1 =>
        \A i \in FunctionItems :
            LET d == DeclOf(original[i])
                class == ClassDecl(d.ident,
                            Class(<<ClassProp("setup", Some(FnExpr(Some(d.ident), d.function)))>>,
                                  Some(ExprIdent(transform.import_rask_stateful_component[1]))))
            IN  /\ IsStatefulClass(After(i)) <=> SomeStatefulReturn(d.function)
                /\ IsStatefulClass(After(i)) =>
                      /\ ~IsStatelessClass(After(i))
                      /\ After(i).type = original[i].type
                      /\ DeclOf(After(i)) = class

\* C2: a function with a direct return of a creation call followed by a
\* return of an arrow function holding one has become a stateful class.
C2_Witness ==
    /\ passes >= 1
    /\ \E i \in FunctionItems :
          LET f == DeclOf(original[i]).function
          IN  /\ \E j, k \in TopReturns(f) :
                    j < k /\ StatelessShape(ArgOf(f, j)) /\ StatefulShape(ArgOf(f, k))
              /\ IsStatefulClass(After(i))

(***************************************************************************)
(* Where a creation call occurs in an expression, whether or not the       *)
(* detector looks there.                                                   *)
(***************************************************************************)
RECURSIVE Occurs(_), OccursInStmts(_)
Occurs(e) ==
    \/ IsCreationCall(e)
    \/ CASE e.type = "Call" ->
               \/ e.callee.kind = "Expr" /\ Occurs(e.callee.expr)
               \/ \E i \in 1..Len(e.args) : Occurs(e.args[i])
         [] e.type = "Paren" -> Occurs(e.expr)
         [] e.type = "Unary" -> Occurs(e.arg)
         [] e.type = "Cond" -> Occurs(e.test) \/ Occurs(e.cons) \/ Occurs(e.alt)
         [] e.type = "Bin" -> Occurs(e.left) \/ Occurs(e.right)
         [] e.type = "Array" ->
               \E i \in 1..Len(e.elems) : e.elems[i] # None /\ Occurs(e.elems[i][1])
         [] e.type = "Arrow" ->
               IF e.body.kind = "Expr" THEN Occurs(e.body.expr) ELSE OccursInStmts(e.body.stmts)
         [] e.type = "Member" ->
               Occurs(e.obj) \/ (e.prop.kind = "Computed" /\ Occurs(e.prop.expr))
         [] e.type = "Object" -> \E i \in 1..Len(e.props) : Occurs(e.props[i])
         [] e.type \in {"Tpl", "Seq"} -> \E i \in 1..Len(e.exprs) : Occurs(e.exprs[i])
         [] OTHER -> FALSE

OccursInStmts(ss) ==
    \E i \in 1..Len(ss) :
        CASE ss[i].type = "Return" -> ss[i].arg # None /\ Occurs(ss[i].arg[1])
          [] ss[i].type = "Expr" -> Occurs(ss[i].expr)
          [] ss[i].type = "If" -> Occurs(ss[i].test) \/ OccursInStmts(ss[i].cons)
          [] ss[i].type = "Block" -> OccursInStmts(ss[i].stmts)
          [] OTHER -> FALSE

\* `a` is a call of something else than a creation function, and creation
\* calls occur in it only inside arrow functions passed as its arguments.
CallWithCreatingCallback(a) ==
    /\ a.type = "Call"
    /\ ~IsCreationCall(a)
    /\ ~(a.callee.kind = "Expr" /\ Occurs(a.callee.expr))
    /\ \A i \in 1..Len(a.args) : Occurs(a.args[i]) => a.args[i].type = "Arrow"
    /\ \E i \in 1..Len(a.args) : Occurs(a.args[i])

\* `a` is a call of something else than a creation function, and an arrow
\* function among its arguments satisfies the detector.
CallWithDetectedCallback(a) ==
    /\ a.type = "Call"
    /\ ~IsCreationCall(a)
    /\ \E i \in 1..Len(a.args) : a.args[i].type = "Arrow" /\ has_creation_call(a.args[i])

NoArrowReturn(f) == \A i \in TopReturns(f) : ArgOf(f, i).type # "Arrow"

\* C3 as stated: a function returning a call whose creation calls occur only
\* inside arrow callbacks among its arguments is Stateless, never Stateful,
\* when no top-level return has an arrow function as its argument.
C3_CallbackCallIsStateless ==
    passes >= 1 =>
        \A i \in FunctionItems :
            LET f == DeclOf(original[i]).function
            IN  /\ NoArrowReturn(f)
                /\ \E k \in TopReturns(f) : CallWithCreatingCallback(ArgOf(f, k))
                => IsStatelessClass(After(i)) /\ ~IsStatefulClass(After(i))

\* C3 amended: a function returning a call of something else than a creation
\* function, one of whose arguments is an arrow callback that satisfies the
\* detector, is Stateless, never Stateful, when no top-level return has an
\* arrow function as its argument.
C3_DetectedCallbackCallIsStateless ==
    passes >= 1 =>
        \A i \in FunctionItems :
            LET f == DeclOf(original[i]).function
            IN  /\ NoArrowReturn(f)
                /\ \E k \in TopReturns(f) : CallWithDetectedCallback(ArgOf(f, k))
                => IsStatelessClass(After(i)) /\ ~IsStatefulClass(After(i))

\* C3: `return items.map(x => createVNode())` made its function a stateless
\* class.
C3_Witness ==
    /\ passes >= 1
    /\ \E i \in FunctionItems :
          LET f == DeclOf(original[i]).function
          IN  /\ NoArrowReturn(f)
              /\ \E k \in TopReturns(f) :
                    /\ CallWithDetectedCallback(ArgOf(f, k))
                    /\ ArgOf(f, k).callee = ItemsMap
              /\ IsStatelessClass(After(i))

(***************************************************************************)
(* The module pass as a whole.                                             *)
(***************************************************************************)
\* The configured importSource, or the default when none is configured.
ConfiguredSource ==
    IF /\ metadata # None
       /\ metadata[1].json = "object"
       /\ metadata[1].importSource # None
       /\ metadata[1].importSource[1].kind = "string"
    THEN metadata[1].importSource[1].value
    ELSE "rask-ui"

Injected == Len(program) - Len(original)

Allocated == {c \in {"RaskStatefulComponent", "RaskStatelessComponent"} :
                IF c = "RaskStatefulComponent"
                THEN transform.import_rask_stateful_component # None
                ELSE transform.import_rask_stateless_component # None}

\* The name a specifier imports from its module.
ImportedName(spec) ==
    CASE spec.type = "Named" /\ spec.imported = None -> spec.local.sym
      [] spec.type = "Named" /\ spec.imported # None /\ spec.imported[1].kind = "Ident" ->
            spec.imported[1].sym
      [] spec.type = "Named" /\ spec.imported # None /\ spec.imported[1].kind = "Str" ->
            spec.imported[1].value
      [] OTHER -> "default"

ImportedNames(it) == {ImportedName(it.specifiers[k]) : k \in 1..Len(it.specifiers)}

\* C4: a second pass with the same configuration changes nothing.
C4_Idempotent ==
    passes >= 2 => program = original

\* C4: a second pass has run over a module into which the first pass had
\* injected the runtime import and in which it had put a class.
C4_Witness ==
    /\ passes = 2
    /\ program # <<>>
    /\ program[1].type = "Import"
    /\ \E k \in 1..Len(program[1].specifiers) : program[1].specifiers[k].local.ctxt > 0
    /\ \E i \in 1..Len(program) : IsClassItem(program[i])

\* C5: a pass inserts at most one import, as the first item, from the
\* configured source, with at most one specifier per base-class name; a name
\* is given a specifier only if its base class was allocated and no import
\* from the configured source already imports that name.
C5_InjectedImport ==
    passes >= 1 =>
        /\ Injected \in {0, 1}
        /\ \A i \in 1..Len(original) : After(i).type = original[i].type
        /\ Injected = 1 =>
              /\ program[1].type = "Import"
              /\ program[1].src = ConfiguredSource
              /\ Cardinality(ImportedNames(program[1])) = Len(program[1].specifiers)
              /\ ImportedNames(program[1]) \subseteq Allocated
              /\ \A i \in 2..Len(program) :
                    program[i].type = "Import" /\ program[i].src = ConfiguredSource
                        => ImportedNames(program[i]) \cap ImportedNames(program[1]) = {}

\* C6: an import from "inferno" now names the configured source, or "rask-ui"
\* when none is configured, with its specifiers as they were; every other
\* import is as it was.
C6_LegacyImportsRewritten ==
    passes >= 1 =>
        \A i \in 1..Len(original) :
            original[i].type = "Import" =>
                After(i) = [original[i] EXCEPT
                              !.src = IF @ = "inferno" THEN ConfiguredSource ELSE @]

\* C6: an import from "inferno" has been rewritten to a configured source.
C6_Witness ==
    /\ passes >= 1
    /\ \E i \in 1..Len(original) :
          /\ original[i].type = "Import"
          /\ original[i].src = "inferno"
          /\ After(i).src = "my-runtime"
          /\ After(i).specifiers = original[i].specifiers

\* The marks handed out before the latest pass began.
MarksBefore == marks - Cardinality(Allocated)

\* The module given to the pass, with the export around item i taken away.
Unexported(i) == [original EXCEPT ![i] = ItemStmt(StmtDecl(original[i].decl))]

\* C7: a function declaration in a named export is rewritten as the bare
\* declaration is: the pass over the module without the export gives the
\* same declaration in its place, the same other items and the same
\* base-class identifiers, and the export is still around the declaration.
C7_ExportedLikeBare ==
    passes >= 1 =>
        \A i \in 1..Len(original) :
            original[i].type = "ExportDecl" /\ original[i].decl.type = "Fn" =>
                LET bare == process_transform(Unexported(i), metadata, MarksBefore)
                    at == i + Injected
                IN  /\ bare.self = transform
                    /\ bare.marks = marks
                    /\ Len(bare.out) = Len(program)
                    /\ \A j \in 1..Len(program) : j # at => bare.out[j] = program[j]
                    /\ program[at].type = "ExportDecl"
                    /\ bare.out[at] = ItemStmt(StmtDecl(program[at].decl))

\* C7: an exported function with a return of either shape has become a
\* stateful class inside its export.
C7_Witness ==
    /\ passes >= 1
    /\ \E i \in 1..Len(original) :
          /\ original[i].type = "ExportDecl"
          /\ original[i].decl.type = "Fn"
          /\ \E j, k \in TopReturns(original[i].decl.function) :
                /\ StatelessShape(ArgOf(original[i].decl.function, j))
                /\ StatefulShape(ArgOf(original[i].decl.function, k))
          /\ After(i).type = "ExportDecl"
          /\ IsStatefulClass(After(i))

IsComponent(f) ==
    SomeStatefulReturn(f) \/ \E i \in TopReturns(f) : StatelessShape(ArgOf(f, i))

\* C8: a default-exported function is left as it is whatever its shape, and
\* allocates nothing: with no component among the module-level function
\* declarations, no base class is allocated and no import is injected.
C8_DefaultExportUntouched ==
    passes >= 1 =>
        /\ \A i \in 1..Len(original) :
              original[i].type = "ExportDefaultDecl" => After(i) = original[i]
        /\ (\A i \in FunctionItems : ~IsComponent(DeclOf(original[i]).function))
              => Allocated = {} /\ Injected = 0

\* C8: a pass has run over a module whose only component is a default-exported
\* function of the Stateful shape.
C8_Witness ==
    /\ passes >= 1
    /\ FunctionItems = {}
    /\ Injected = 0
    /\ \E i \in 1..Len(original) :
          /\ original[i].type = "ExportDefaultDecl"
          /\ SomeStatefulReturn(original[i].decl.function)
          /\ program[i] = original[i]

\* The declarations nested in statements, outermost first.
RECURSIVE NestedDecls(_)
NestedDecls(ss) ==
    IF ss = <<>>
    THEN <<>>
    ELSE LET s == Head(ss)
             here == CASE s.type = "If" -> NestedDecls(s.cons)
                       [] s.type = "Block" -> NestedDecls(s.stmts)
                       [] s.type = "Decl" /\ s.decl.type = "Fn" ->
                             <<[type |-> "Fn", ident |-> s.decl.ident]>> \o
                             (IF s.decl.function.body = None
                              THEN <<>>
                              ELSE NestedDecls(s.decl.function.body[1]))
                       [] s.type = "Decl" ->
                             <<[type |-> s.decl.type, ident |-> s.decl.ident]>>
                       [] OTHER -> <<>>
         IN  here \o NestedDecls(Tail(ss))

NestedIn(f) == IF f.body = None THEN <<>> ELSE NestedDecls(f.body[1])

\* C10: a module-level function declaration that is no component stays the
\* function declaration it was; a rewritten one is a class whose single field
\* holds a function with the name, parameters and body of the original; and
\* every function declaration nested in either is still a function declaration.
C10_OnlyOuterShapeChanges ==
    passes >= 1 =>
        \A i \in FunctionItems :
            LET d == DeclOf(original[i])
                a == After(i)
            IN  /\ ~IsComponent(d.function) =>
                      /\ IsFunctionItem(a)
                      /\ DeclOf(a).ident = d.ident
                      /\ DeclOf(a).function.params = d.function.params
                      /\ NestedIn(DeclOf(a).function) = NestedIn(d.function)
                      /\ a = original[i]
                /\ IsComponent(d.function) =>
                      /\ IsClassItem(a)
                      /\ DeclOf(a).ident = d.ident
                      /\ Len(DeclOf(a).class.body) = 1
                      /\ DeclOf(a).class.body[1].value # None
                      /\ LET held == DeclOf(a).class.body[1].value[1]
                         IN  /\ held.type = "Fn"
                             /\ held.ident = Some(d.ident)
                             /\ held.function.params = d.function.params
                             /\ held.function.body = d.function.body
                             /\ NestedIn(held.function) = NestedIn(d.function)

\* C10: a function that is no component but declares a component inside its
\* body has come through a pass as it was.
C10_Witness ==
    /\ passes >= 1
    /\ \E i \in FunctionItems :
          LET f == DeclOf(original[i]).function
          IN  /\ ~IsComponent(f)
              /\ \E k \in 1..Len(NestedIn(f)) : NestedIn(f)[k].type = "Fn"
              /\ \E k \in 1..Len(f.body[1]) :
                    /\ f.body[1][k].type = "Decl"
                    /\ IsComponent(f.body[1][k].decl.function)
              /\ After(i) = original[i]

\* The names bound by the import specifiers from the configured source.
BoundFromConfiguredSource ==
    UNION {{program[i].specifiers[k].local.sym : k \in 1..Len(program[i].specifiers)} :
              i \in {j \in 1..Len(program) :
                        program[j].type = "Import" /\ program[j].src = ConfiguredSource}}

\* The classes the latest pass put in place of function declarations.
SynthesizedClasses == {i \in FunctionItems : IsClassItem(After(i))}

\* C11: after a pass every synthesized class extends the one identifier
\* allocated for its base class, and an import specifier from the configured
\* source binds that identifier, also when the module already imported the
\* base class (aliased, or from the legacy source) and injection was skipped.
\* Identifiers are compared by name here, leaving hygiene marks aside.
C11_SuperClassIsImported ==
    passes >= 1 =>
        \A i \in SynthesizedClasses :
            LET sup == DeclOf(After(i)).class.super_class
            IN  /\ IsStatefulClass(After(i)) \/ IsStatelessClass(After(i))
                /\ sup # None
                /\ sup[1].type = "Ident"
                /\ sup[1].sym \in BoundFromConfiguredSource

====
